---------------------------- MODULE Spec2Model ----------------------------
(***************************************************************************)
(* Model of test-webhook-receiver.py: the WebhookHandler.do_POST handler,  *)
(* run_server and the __main__ block.                                      *)
(*                                                                         *)
(* Text is modelled as a sequence of code points, a request body as a      *)
(* sequence of bytes (0..255).  The library calls the handler relies on    *)
(* (int(), bytes.decode('utf-8'), json.loads, dict.get, str()/repr() in    *)
(* f-strings, rfile.read) are modelled by what CPython does.               *)
(***************************************************************************)
EXTENDS Integers, Sequences, FiniteSets, TLC

(***************************************************************************)
(* Bounds of the model.                                                    *)
(***************************************************************************)
\* number of POST requests the listener accepts in one run
MaxRequests == 2
\* the same for the runs of SpecRepeat, which draw from fewer requests
MaxRepeats == 3

(***************************************************************************)
(* Program constants.                                                      *)
(***************************************************************************)
\* run_server(port=8888) and the default of the __main__ block
DefaultPort == 8888
\* "="*80
SepWidth == 80
\* self.send_response(200)
StatusOK == 200

(***************************************************************************)
(* Characters and int().                                                   *)
(***************************************************************************)
IsSpace(c) == c \in {9, 10, 11, 12, 13, 32}
IsDigit(c) == c \in 48..57

RECURSIVE LStrip(_)
LStrip(s) == IF Len(s) > 0 /\ IsSpace(s[1]) THEN LStrip(Tail(s)) ELSE s

RECURSIVE RStrip(_)
RStrip(s) ==
    IF Len(s) > 0 /\ IsSpace(s[Len(s)]) THEN RStrip(SubSeq(s, 1, Len(s) - 1)) ELSE s

\* digits separated by single underscores: the literal part int() accepts
DigitsOk(s) ==
    /\ Len(s) > 0
    /\ IsDigit(s[1])
    /\ IsDigit(s[Len(s)])
    /\ \A i \in 1..Len(s) : IsDigit(s[i]) \/ s[i] = 95
    /\ \A i \in 1..(Len(s) - 1) : ~(s[i] = 95 /\ s[i + 1] = 95)

RECURSIVE DigitsVal(_, _)
DigitsVal(s, acc) ==
    IF Len(s) = 0 THEN acc
    ELSE IF s[1] = 95 THEN DigitsVal(Tail(s), acc)
    ELSE DigitsVal(Tail(s), 10 * acc + (s[1] - 48))

\* int(x): x is [present |-> FALSE] for None, or a text.
\* err is "" on success, else the exception int() raises.
PyInt(x) ==
    IF ~x.present THEN [err |-> "TypeError", val |-> 0]
    ELSE LET t == RStrip(LStrip(x.value))
             signed == Len(t) > 0 /\ t[1] \in {43, 45}
             body == IF signed THEN Tail(t) ELSE t
         IN IF DigitsOk(body)
            THEN [err |-> "",
                  val |-> IF signed /\ t[1] = 45 THEN 0 - DigitsVal(body, 0)
                          ELSE DigitsVal(body, 0)]
            ELSE [err |-> "ValueError", val |-> 0]

\* str(n) of an int
RECURSIVE Digits(_)
Digits(n) ==
    IF n < 0 THEN <<45>> \o Digits(0 - n)
    ELSE IF n < 10 THEN <<48 + n>>
    ELSE Digits(n \div 10) \o <<48 + (n % 10)>>

(***************************************************************************)
(* bytes.decode('utf-8'), strict.                                          *)
(***************************************************************************)
IsCont(b) == b \in 128..191

\* number of bytes of the well-formed sequence starting at b[i], 0 if none
Utf8SeqLen(b, i) ==
    LET n == Len(b)
        c == b[i]
    IN IF c < 128 THEN 1
       ELSE IF c \in 194..223
            THEN IF i + 1 <= n /\ IsCont(b[i + 1]) THEN 2 ELSE 0
       ELSE IF c \in 224..239
            THEN IF /\ i + 2 <= n
                    /\ IsCont(b[i + 1])
                    /\ IsCont(b[i + 2])
                    /\ (c = 224 => b[i + 1] >= 160)
                    /\ (c = 237 => b[i + 1] <= 159)
                 THEN 3 ELSE 0
       ELSE IF c \in 240..244
            THEN IF /\ i + 3 <= n
                    /\ IsCont(b[i + 1])
                    /\ IsCont(b[i + 2])
                    /\ IsCont(b[i + 3])
                    /\ (c = 240 => b[i + 1] >= 144)
                    /\ (c = 244 => b[i + 1] <= 143)
                 THEN 4 ELSE 0
       ELSE 0

Utf8CodePoint(b, i, k) ==
    IF k = 1 THEN b[i]
    ELSE IF k = 2 THEN (b[i] - 192) * 64 + (b[i + 1] - 128)
    ELSE IF k = 3 THEN (b[i] - 224) * 4096 + (b[i + 1] - 128) * 64 + (b[i + 2] - 128)
    ELSE (b[i] - 240) * 262144 + (b[i + 1] - 128) * 4096
           + (b[i + 2] - 128) * 64 + (b[i + 3] - 128)

\* the positions where a character starts: UTF-8 is self-synchronising, a
\* character starts at every byte that is no continuation byte
Utf8Leads(b) == {i \in 1..Len(b) : ~IsCont(b[i])}

\* every lead byte starts a well-formed sequence and every continuation byte
\* belongs to one
Utf8Valid(b) ==
    /\ \A i \in Utf8Leads(b) : Utf8SeqLen(b, i) > 0
    /\ \A j \in (1..Len(b)) \ Utf8Leads(b) :
           \E i \in Utf8Leads(b) \cap ((j - 3)..(j - 1)) : j < i + Utf8SeqLen(b, i)

IsCodePoint(c) == c >= 0

\* post_data.decode('utf-8'): err is "" and text the code points, or err is
\* "UnicodeDecodeError"
Utf8Decode(b) ==
    IF Utf8Valid(b)
    THEN [err |-> "",
          text |-> SelectSeq([i \in 1..Len(b) |->
                                 IF IsCont(b[i]) THEN -1
                                 ELSE Utf8CodePoint(b, i, Utf8SeqLen(b, i))],
                             IsCodePoint)]
    ELSE [err |-> "UnicodeDecodeError", text |-> <<>>]

(***************************************************************************)
(* Python values json.loads produces: a record [t, v] with                 *)
(*   t = "null" (None), "bool", "int", "float" (only nan, inf, -inf; v is  *)
(*   the text str() gives), "str" (v a text), "list" (v a sequence of      *)
(*   values), "dict" (v a sequence of [k, v] pairs in insertion order,     *)
(*   keys unique).                                                         *)
(***************************************************************************)
PyNone == [t |-> "null", v |-> 0]
PyBool(b) == [t |-> "bool", v |-> b]
PyIntVal(n) == [t |-> "int", v |-> n]
PyFloat(s) == [t |-> "float", v |-> s]
PyStr(s) == [t |-> "str", v |-> s]
PyList(xs) == [t |-> "list", v |-> xs]
PyDict(ps) == [t |-> "dict", v |-> ps]

HasKey(ps, k) == \E i \in 1..Len(ps) : ps[i].k = k

KeyIndex(ps, k) == CHOOSE i \in 1..Len(ps) : ps[i].k = k

\* d[k] = v on a dict: a known key keeps its position, a new one goes last
DictSet(ps, k, v) ==
    IF HasKey(ps, k)
    THEN [ps EXCEPT ![KeyIndex(ps, k)] = [k |-> k, v |-> v]]
    ELSE Append(ps, [k |-> k, v |-> v])

(***************************************************************************)
(* json.loads (json/__init__.py, json/decoder.py, json/scanner.py).        *)
(* Positions are 1-based indices of the next character to read.            *)
(* Number literals with a fraction or an exponent are not modelled; no     *)
(* request of the model contains one.  \uXXXX escapes are decoded without  *)
(* surrogate pairing.                                                      *)
(***************************************************************************)
JsonWs == {32, 9, 10, 13}

ParseFail == [ok |-> FALSE, val |-> PyNone, end |-> 0]

ParseOk(val, end) == [ok |-> TRUE, val |-> val, end |-> end]

RECURSIVE SkipWs(_, _)
SkipWs(s, i) == IF i <= Len(s) /\ s[i] \in JsonWs THEN SkipWs(s, i + 1) ELSE i

StartsWith(s, i, lit) ==
    /\ i + Len(lit) - 1 <= Len(s)
    /\ SubSeq(s, i, i + Len(lit) - 1) = lit

IsHex(c) == c \in (48..57) \cup (65..70) \cup (97..102)

HexVal(c) == IF c \in 48..57 THEN c - 48 ELSE IF c \in 65..70 THEN c - 55 ELSE c - 87

\* BACKSLASH table of json/decoder.py: " \ / b f n r t
IsSimpleEscape(c) == c \in {34, 92, 47, 98, 102, 110, 114, 116}

SimpleEscape(c) ==
    IF c = 98 THEN 8
    ELSE IF c = 102 THEN 12
    ELSE IF c = 110 THEN 10
    ELSE IF c = 114 THEN 13
    ELSE IF c = 116 THEN 9
    ELSE c

\* py_scanstring(s, end, strict=True); i is the position after the opening quote
RECURSIVE ScanString(_, _, _)
ScanString(s, i, acc) ==
    IF i > Len(s) THEN ParseFail
    ELSE IF s[i] = 34 THEN ParseOk(acc, i + 1)
    ELSE IF s[i] = 92
         THEN IF i + 1 > Len(s) THEN ParseFail
              ELSE IF s[i + 1] = 117
                   THEN IF /\ i + 5 <= Len(s)
                           /\ \A j \in (i + 2)..(i + 5) : IsHex(s[j])
                        THEN ScanString(s, i + 6,
                                 Append(acc, HexVal(s[i + 2]) * 4096 + HexVal(s[i + 3]) * 256
                                             + HexVal(s[i + 4]) * 16 + HexVal(s[i + 5])))
                        ELSE ParseFail
              ELSE IF IsSimpleEscape(s[i + 1])
                   THEN ScanString(s, i + 2, Append(acc, SimpleEscape(s[i + 1])))
              ELSE ParseFail
    ELSE IF s[i] < 32 THEN ParseFail
    ELSE ScanString(s, i + 1, Append(acc, s[i]))

RECURSIVE DigitsEnd(_, _)
DigitsEnd(s, i) == IF i <= Len(s) /\ IsDigit(s[i]) THEN DigitsEnd(s, i + 1) ELSE i

\* NUMBER_RE, integer part: -?(0|[1-9][0-9]*)
MatchNumber(s, i) ==
    LET neg == s[i] = 45
        j == IF neg THEN i + 1 ELSE i
    IN IF j > Len(s) \/ ~IsDigit(s[j]) THEN ParseFail
       ELSE LET e == IF s[j] = 48 THEN j + 1 ELSE DigitsEnd(s, j)
                n == DigitsVal(SubSeq(s, j, e - 1), 0)
            IN ParseOk(PyIntVal(IF neg THEN 0 - n ELSE n), e)

RECURSIVE ScanOnce(_, _)
RECURSIVE ObjectLoop(_, _, _)
RECURSIVE ArrayLoop(_, _, _)

\* py_make_scanner._scan_once
ScanOnce(s, i) ==
    IF i > Len(s) THEN ParseFail
    ELSE IF s[i] = 34
         THEN LET r == ScanString(s, i + 1, <<>>)
              IN IF r.ok THEN ParseOk(PyStr(r.val), r.end) ELSE ParseFail
    ELSE IF s[i] = 123
         \* JSONObject: "{" then "}" or the first key
         THEN LET j == SkipWs(s, i + 1)
              IN IF j > Len(s) THEN ParseFail
                 ELSE IF s[j] = 125 THEN ParseOk(PyDict(<<>>), j + 1)
                 ELSE IF s[j] = 34 THEN ObjectLoop(s, j + 1, <<>>)
                 ELSE ParseFail
    ELSE IF s[i] = 91
         \* JSONArray: "[" then "]" or the first value
         THEN LET j == SkipWs(s, i + 1)
              IN IF j <= Len(s) /\ s[j] = 93 THEN ParseOk(PyList(<<>>), j + 1)
                 ELSE ArrayLoop(s, j, <<>>)
    ELSE IF StartsWith(s, i, <<110, 117, 108, 108>>) THEN ParseOk(PyNone, i + 4)
    ELSE IF StartsWith(s, i, <<116, 114, 117, 101>>) THEN ParseOk(PyBool(TRUE), i + 4)
    ELSE IF StartsWith(s, i, <<102, 97, 108, 115, 101>>) THEN ParseOk(PyBool(FALSE), i + 5)
    ELSE IF MatchNumber(s, i).ok THEN MatchNumber(s, i)
    ELSE IF StartsWith(s, i, <<78, 97, 78>>)
         THEN ParseOk(PyFloat(<<110, 97, 110>>), i + 3)
    ELSE IF StartsWith(s, i, <<73, 110, 102, 105, 110, 105, 116, 121>>)
         THEN ParseOk(PyFloat(<<105, 110, 102>>), i + 8)
    ELSE IF StartsWith(s, i, <<45, 73, 110, 102, 105, 110, 105, 116, 121>>)
         THEN ParseOk(PyFloat(<<45, 105, 110, 102>>), i + 9)
    ELSE ParseFail

\* the while loop of JSONObject; i is the position after the key's opening quote
ObjectLoop(s, i, pairs) ==
    LET key == ScanString(s, i, <<>>)
    IN IF ~key.ok THEN ParseFail
       ELSE LET c == SkipWs(s, key.end)
            IN IF c > Len(s) \/ s[c] # 58 THEN ParseFail
               ELSE LET val == ScanOnce(s, SkipWs(s, c + 1))
                    IN IF ~val.ok THEN ParseFail
                       ELSE LET ps == DictSet(pairs, key.val, val.val)
                                n == SkipWs(s, val.end)
                            IN IF n > Len(s) THEN ParseFail
                               ELSE IF s[n] = 125 THEN ParseOk(PyDict(ps), n + 1)
                               ELSE IF s[n] # 44 THEN ParseFail
                               ELSE LET q == SkipWs(s, n + 1)
                                    IN IF q <= Len(s) /\ s[q] = 34
                                       THEN ObjectLoop(s, q + 1, ps)
                                       ELSE ParseFail

\* the while loop of JSONArray; i is the position of the next value
ArrayLoop(s, i, vals) ==
    LET val == ScanOnce(s, i)
    IN IF ~val.ok THEN ParseFail
       ELSE LET vs == Append(vals, val.val)
                n == SkipWs(s, val.end)
            IN IF n > Len(s) THEN ParseFail
               ELSE IF s[n] = 93 THEN ParseOk(PyList(vs), n + 1)
               ELSE IF s[n] # 44 THEN ParseFail
               ELSE ArrayLoop(s, SkipWs(s, n + 1), vs)

\* json.loads(text): err is "" and val the value, or err is "JSONDecodeError"
JsonLoads(text) ==
    IF Len(text) > 0 /\ text[1] = 65279
    THEN [err |-> "JSONDecodeError", val |-> PyNone]
    ELSE LET r == ScanOnce(text, SkipWs(text, 1))
         IN IF r.ok /\ SkipWs(text, r.end) = Len(text) + 1
            THEN [err |-> "", val |-> r.val]
            ELSE [err |-> "JSONDecodeError", val |-> PyNone]

(***************************************************************************)
(* str() and repr() as the f-strings of do_POST apply them, bool() as the  *)
(* if of line 29 applies it, and dict.get.                                 *)
(***************************************************************************)
Contains(s, c) == \E i \in 1..Len(s) : s[i] = c

HexDigit(n) == IF n < 10 THEN 48 + n ELSE 87 + n

\* one character of repr(str) with the given quote character
ReprChar(c, quote) ==
    IF c = quote \/ c = 92 THEN <<92, c>>
    ELSE IF c = 9 THEN <<92, 116>>
    ELSE IF c = 10 THEN <<92, 110>>
    ELSE IF c = 13 THEN <<92, 114>>
    ELSE IF c < 32 \/ c = 127 THEN <<92, 120, HexDigit(c \div 16), HexDigit(c % 16)>>
    ELSE <<c>>

RECURSIVE ReprChars(_, _)
ReprChars(s, quote) ==
    IF Len(s) = 0 THEN <<>> ELSE ReprChar(s[1], quote) \o ReprChars(Tail(s), quote)

\* repr of a str: single quotes unless the text has ' and no "
ReprStr(s) ==
    LET quote == IF Contains(s, 39) /\ ~Contains(s, 34) THEN 34 ELSE 39
    IN <<quote>> \o ReprChars(s, quote) \o <<quote>>

RECURSIVE Repr(_)
RECURSIVE ReprItems(_)
RECURSIVE ReprPairs(_)

\* repr(v)
Repr(x) ==
    IF x.t = "null" THEN <<78, 111, 110, 101>>
    ELSE IF x.t = "bool" THEN (IF x.v THEN <<84, 114, 117, 101>> ELSE <<70, 97, 108, 115, 101>>)
    ELSE IF x.t = "int" THEN Digits(x.v)
    ELSE IF x.t = "float" THEN x.v
    ELSE IF x.t = "str" THEN ReprStr(x.v)
    ELSE IF x.t = "list" THEN <<91>> \o ReprItems(x.v) \o <<93>>
    ELSE <<123>> \o ReprPairs(x.v) \o <<125>>

ReprItems(xs) ==
    IF Len(xs) = 0 THEN <<>>
    ELSE IF Len(xs) = 1 THEN Repr(xs[1])
    ELSE Repr(xs[1]) \o <<44, 32>> \o ReprItems(Tail(xs))

ReprPairs(ps) ==
    IF Len(ps) = 0 THEN <<>>
    ELSE LET one == ReprStr(ps[1].k) \o <<58, 32>> \o Repr(ps[1].v)
         IN IF Len(ps) = 1 THEN one ELSE one \o <<44, 32>> \o ReprPairs(Tail(ps))

\* str(v), what f"{v}" prints
Str(x) == IF x.t = "str" THEN x.v ELSE Repr(x)

\* bool(v)
Truthy(x) ==
    IF x.t = "null" THEN FALSE
    ELSE IF x.t = "bool" THEN x.v
    ELSE IF x.t = "int" THEN x.v # 0
    ELSE IF x.t = "float" THEN TRUE
    ELSE Len(x.v) > 0

\* d.get(k, dflt) on the pairs of a dict
DictGet(ps, k, dflt) == IF HasKey(ps, k) THEN ps[KeyIndex(ps, k)].v ELSE dflt

(***************************************************************************)
(* Keys and literals of do_POST.                                           *)
(***************************************************************************)
K_alert_id == <<97, 108, 101, 114, 116, 95, 105, 100>>
K_title == <<116, 105, 116, 108, 101>>
K_message == <<109, 101, 115, 115, 97, 103, 101>>
K_severity == <<115, 101, 118, 101, 114, 105, 116, 121>>
K_alert_type == <<97, 108, 101, 114, 116, 95, 116, 121, 112, 101>>
K_device_id == <<100, 101, 118, 105, 99, 101, 95, 105, 100>>
K_created_at == <<99, 114, 101, 97, 116, 101, 100, 95, 97, 116>>
K_timestamp == <<116, 105, 109, 101, 115, 116, 97, 109, 112>>
K_metadata == <<109, 101, 116, 97, 100, 97, 116, 97>>

\* the default 'N/A' of data.get('device_id', 'N/A')
NotAvailable == PyStr(<<78, 47, 65>>)

\* "="*80
Rule == [i \in 1..SepWidth |-> 61]

(***************************************************************************)
(* A line of standard output is one print call: label names the print      *)
(* statement, text is the text it prints after its fixed prefix, exc the   *)
(* class of the exception it formats ("" when it formats none).            *)
(***************************************************************************)
Line(label, text) == [label |-> label, text |-> text, exc |-> ""]

\* lines 14-16
ReceiptLines ==
    << Line("rule_open", <<10>> \o Rule),
       Line("receipt", <<>>),
       Line("rule", Rule) >>

\* lines 20-27 as they would be with data.get('device_id') on line 25
FieldsWithoutPlaceholder ==
    << [label |-> "alert_id", key |-> K_alert_id, dflt |-> PyNone],
       [label |-> "title", key |-> K_title, dflt |-> PyNone],
       [label |-> "message", key |-> K_message, dflt |-> PyNone],
       [label |-> "severity", key |-> K_severity, dflt |-> PyNone],
       [label |-> "alert_type", key |-> K_alert_type, dflt |-> PyNone],
       [label |-> "device_id", key |-> K_device_id, dflt |-> PyNone],
       [label |-> "created_at", key |-> K_created_at, dflt |-> PyNone],
       [label |-> "timestamp", key |-> K_timestamp, dflt |-> PyNone] >>

\* the labels of lines 20-27 with the key each line reads and its default
Fields ==
    << [label |-> "alert_id", key |-> K_alert_id, dflt |-> PyNone],
       [label |-> "title", key |-> K_title, dflt |-> PyNone],
       [label |-> "message", key |-> K_message, dflt |-> PyNone],
       [label |-> "severity", key |-> K_severity, dflt |-> PyNone],
       [label |-> "alert_type", key |-> K_alert_type, dflt |-> PyNone],
       [label |-> "device_id", key |-> K_device_id, dflt |-> NotAvailable],
       [label |-> "created_at", key |-> K_created_at, dflt |-> PyNone],
       [label |-> "timestamp", key |-> K_timestamp, dflt |-> PyNone] >>

\* lines 20-27 for a dict with pairs ps
FieldLines(ps) ==
    [i \in 1..Len(Fields) |->
        Line(Fields[i].label, Str(DictGet(ps, Fields[i].key, Fields[i].dflt)))]

\* lines 31-32 as they would be when iterating reversed(...items())
MetadataLinesReversed(ms) ==
    [i \in 1..Len(ms) |->
        Line("metadata_item",
             <<32, 32>> \o ms[Len(ms) + 1 - i].k \o <<58, 32>> \o Str(ms[Len(ms) + 1 - i].v))]

\* lines 31-32 for the pairs of a metadata dict
MetadataLines(ms) ==
    [i \in 1..Len(ms) |-> Line("metadata_item", <<32, 32>> \o ms[i].k \o <<58, 32>> \o Str(ms[i].v))]

\* line 30
MetadataHeading == Line("metadata_heading", <<>>)

\* line 34
ClosingLine == Line("rule_close", <<10>> \o Rule \o <<10>>)

\* line 37
ParseErrorLine(e) == [label |-> "parse_error", text |-> <<>>, exc |-> e]

\* line 38 as it would be with print(post_data): the repr, not the text
RawDataLineRepr(text) == Line("raw_data", ReprStr(text))

\* line 38
RawDataLine(text) == Line("raw_data", text)

\* lines 41-44
Ack ==
    << [part |-> "status", code |-> StatusOK, name |-> "", value |-> ""],
       [part |-> "header", code |-> 0, name |-> "Content-type", value |-> "application/json"],
       [part |-> "end_headers", code |-> 0, name |-> "", value |-> ""],
       [part |-> "body", code |-> 0, name |-> "", value |-> "{\"status\": \"received\"}"] >>

\* lines 53-55
BannerLines(p) ==
    << Line("banner_port", Digits(p)),
       Line("banner_url", <<104, 116, 116, 112, 58, 47, 47, 108, 111, 99, 97, 108, 104, 111, 115, 116, 58>> \o Digits(p) \o <<47, 119, 101, 98, 104, 111, 111, 107>>),
       Line("banner_waiting", <<10>>) >>

\* line 63
FarewellLine == Line("farewell", <<>>)

(***************************************************************************)
(* The requests and command lines the model draws from.                    *)
(***************************************************************************)
\* the bytes of {"alert_id":"a1","title":"t","message":"m","severity":"high","alert_type":"cpu","device_id":"d1","created_at":"c","timestamp":17}
BodyFull ==
    <<123, 34, 97, 108, 101, 114, 116, 95, 105, 100, 34, 58, 34, 97, 49,
      34, 44, 34, 116, 105, 116, 108, 101, 34, 58, 34, 116, 34, 44, 34,
      109, 101, 115, 115, 97, 103, 101, 34, 58, 34, 109, 34, 44, 34, 115,
      101, 118, 101, 114, 105, 116, 121, 34, 58, 34, 104, 105, 103, 104,
      34, 44, 34, 97, 108, 101, 114, 116, 95, 116, 121, 112, 101, 34, 58,
      34, 99, 112, 117, 34, 44, 34, 100, 101, 118, 105, 99, 101, 95, 105,
      100, 34, 58, 34, 100, 49, 34, 44, 34, 99, 114, 101, 97, 116, 101,
      100, 95, 97, 116, 34, 58, 34, 99, 34, 44, 34, 116, 105, 109, 101,
      115, 116, 97, 109, 112, 34, 58, 49, 55, 125>>

\* the bytes of {"title": "disk"}
BodyTitle ==
    <<123, 34, 116, 105, 116, 108, 101, 34, 58, 32, 34, 100, 105, 115, 107,
      34, 125>>

\* the bytes of {}
BodyEmptyObject ==
    <<123, 125>>

\* the bytes of {"device_id": null}
BodyDeviceNull ==
    <<123, 34, 100, 101, 118, 105, 99, 101, 95, 105, 100, 34, 58, 32, 110,
      117, 108, 108, 125>>

\* the bytes of {"title":"t","metadata":{}}
BodyMetaEmpty ==
    <<123, 34, 116, 105, 116, 108, 101, 34, 58, 34, 116, 34, 44, 34, 109,
      101, 116, 97, 100, 97, 116, 97, 34, 58, 123, 125, 125>>

\* the bytes of {"metadata": {"zone": "us-east", "n": 1}}
BodyMeta ==
    <<123, 34, 109, 101, 116, 97, 100, 97, 116, 97, 34, 58, 32, 123, 34,
      122, 111, 110, 101, 34, 58, 32, 34, 117, 115, 45, 101, 97, 115, 116,
      34, 44, 32, 34, 110, 34, 58, 32, 49, 125, 125>>

\* the bytes of {"metadata":"x"}
BodyMetaString ==
    <<123, 34, 109, 101, 116, 97, 100, 97, 116, 97, 34, 58, 34, 120, 34, 125>>

\* the bytes of {"title":"\xe9"} in UTF-8
BodyAccent ==
    <<123, 34, 116, 105, 116, 108, 101, 34, 58, 34, 195, 169, 34, 125>>

\* the bytes of not json
BodyNotJson ==
    <<110, 111, 116, 32, 106, 115, 111, 110>>

\* the bytes of [1]
BodyArray ==
    <<91, 49, 93>>

\* the bytes of "s"
BodyString ==
    <<34, 115, 34>>

\* the bytes of 7
BodyNumber ==
    <<55>>

\* the bytes of true
BodyTrue ==
    <<116, 114, 117, 101>>

\* the bytes of null
BodyNull ==
    <<110, 117, 108, 108>>

\* 0xC3 0x28: a lead byte without its continuation byte
BodyBadUtf8 ==
    <<195, 40>>

Bodies ==
    { BodyFull,
      BodyTitle,
      BodyEmptyObject,
      BodyDeviceNull,
      BodyMetaEmpty,
      BodyMeta,
      BodyMetaString,
      BodyAccent,
      BodyNotJson,
      BodyArray,
      BodyString,
      BodyNumber,
      BodyTrue,
      BodyNull,
      BodyBadUtf8 }

Given(text) == [present |-> TRUE, value |-> text]

Missing == [present |-> FALSE, value |-> <<>>]

Request(hdr, wire) == [hdr |-> hdr, wire |-> wire]

\* Content-Length values that do not match the body: missing, "abc", "-5",
\* and "5" (shorter than the body)
OddRequests ==
    { Request(Missing, BodyTitle),
      Request(Given(<<97, 98, 99>>), BodyTitle),
      Request(Given(<<45, 53>>), BodyTitle),
      Request(Given(<<53>>), BodyTitle) }

Requests == { Request(Given(Digits(Len(b))), b) : b \in Bodies } \cup OddRequests

\* one request for each path through do_POST
RepeatRequests ==
    { Request(Given(Digits(Len(BodyMeta))), BodyMeta),
      Request(Given(Digits(Len(BodyTitle))), BodyTitle),
      Request(Given(Digits(Len(BodyMetaString))), BodyMetaString),
      Request(Given(Digits(Len(BodyArray))), BodyArray),
      Request(Given(Digits(Len(BodyNotJson))), BodyNotJson),
      Request(Given(Digits(Len(BodyBadUtf8))), BodyBadUtf8),
      Request(Missing, BodyTitle),
      Request(Given(<<45, 53>>), BodyTitle) }

\* sys.argv[1]: absent, "9001", "abc"
ArgvChoices == { Missing, Given(<<57, 48, 48, 49>>), Given(<<97, 98, 99>>) }

(***************************************************************************)
(* State.  pc is the source line the main thread is about to run:          *)
(*   L59 the port argument; L52 HTTPServer(...); L53 the banner;           *)
(*   L56 serve_forever waiting for a request; L11..L41 inside do_POST;     *)
(*   L63 the farewell of the except clause; exit the process has ended.    *)
(***************************************************************************)
VARIABLES
    pc,              \* position of the main thread
    argv,            \* sys.argv[1], or Missing
    port,            \* the port of the __main__ block
    listening,       \* the port the server socket is bound to, 0 when none
    console,         \* standard output: the print calls so far
    exitStatus,      \* exit status of the process, -1 while it runs
    interrupts,      \* where each KeyboardInterrupt arrived
    nreq,            \* requests accepted so far
    req,             \* the request do_POST is handling
    content_length,  \* local of do_POST
    post_data,       \* local of do_POST
    data,            \* local of do_POST
    exc,             \* the exception e of the except clause of line 36
    mark,            \* length of console when do_POST was entered
    log              \* one record per finished do_POST call

vars ==
    << pc, argv, port, listening, console, exitStatus, interrupts, nreq, req,
       content_length, post_data, data, exc, mark, log >>

NoRequest == Request(Missing, <<>>)

HandlerPcs == {"L11", "L12", "L14", "L19", "L20", "L29", "L34", "L37", "L38", "L41"}

\* the lines run inside the try of lines 60-61
TryPcs == {"L52", "L53", "L56"} \cup HandlerPcs

Init ==
    /\ pc = "L59"
    /\ argv \in ArgvChoices
    /\ port = 0
    /\ listening = 0
    /\ console = <<>>
    /\ exitStatus = -1
    /\ interrupts = <<>>
    /\ nreq = 0
    /\ req = NoRequest
    /\ content_length = 0
    /\ post_data = <<>>
    /\ data = PyNone
    /\ exc = ""
    /\ mark = 0
    /\ log = <<>>

\* the frame of do_POST is gone: its locals are discarded
DiscardLocals ==
    /\ req' = NoRequest
    /\ content_length' = 0
    /\ post_data' = <<>>
    /\ data' = PyNone
    /\ exc' = ""
    /\ mark' = 0

LocalsUnchanged == UNCHANGED << req, content_length, post_data, data, exc, mark >>

ServerUnchanged == UNCHANGED << argv, port, listening, exitStatus, interrupts, nreq >>

(***************************************************************************)
(* __main__ and run_server.                                                *)
(***************************************************************************)
\* line 59: port = int(sys.argv[1]) if len(sys.argv) > 1 else 8888
PortOf(a) == IF a.present THEN PyInt(a) ELSE [err |-> "", val |-> DefaultPort]

ParseArgs ==
    /\ pc = "L59"
    /\ PortOf(argv).err = ""
    /\ port' = PortOf(argv).val
    /\ pc' = "L52"
    /\ UNCHANGED << argv, listening, console, exitStatus, interrupts, nreq, log >>
    /\ LocalsUnchanged

\* line 59 raises ValueError outside the try: traceback, exit status 1
ParseArgsFails ==
    /\ pc = "L59"
    /\ PortOf(argv).err # ""
    /\ pc' = "exit"
    /\ exitStatus' = 1
    /\ UNCHANGED << argv, port, listening, console, interrupts, nreq, log >>
    /\ LocalsUnchanged

\* lines 51-52: HTTPServer(('', port), WebhookHandler) binds and listens
Bind ==
    /\ pc = "L52"
    /\ listening' = port
    /\ pc' = "L53"
    /\ UNCHANGED << argv, port, console, exitStatus, interrupts, nreq, log >>
    /\ LocalsUnchanged

\* lines 51-52 when the port is taken: OSError is not caught by line 62
BindFails ==
    /\ pc = "L52"
    /\ pc' = "exit"
    /\ exitStatus' = 1
    /\ UNCHANGED << argv, port, listening, console, interrupts, nreq, log >>
    /\ LocalsUnchanged

\* lines 53-55
PrintBanner ==
    /\ pc = "L53"
    /\ console' = console \o BannerLines(port)
    /\ pc' = "L56"
    /\ UNCHANGED << argv, port, listening, exitStatus, interrupts, nreq, log >>
    /\ LocalsUnchanged

\* line 56: serve_forever accepts a POST and calls do_POST on a new handler;
\* max bounds the number of requests of a run
Accept(r, max) ==
    /\ pc = "L56"
    /\ nreq < max
    /\ nreq' = nreq + 1
    /\ req' = r
    /\ mark' = Len(console)
    /\ pc' = "L11"
    /\ UNCHANGED << argv, port, listening, console, exitStatus, interrupts, log,
                    content_length, post_data, data, exc >>

AcceptRequest(r) == Accept(r, MaxRequests)

AcceptRepeat(r) == Accept(r, MaxRepeats)

\* KeyboardInterrupt raised in the main thread inside the try of lines 60-61:
\* it is no Exception, so neither line 36 nor socketserver catches it, and it
\* reaches the except clause of line 62
Interrupt ==
    /\ pc \in TryPcs
    /\ interrupts' = Append(interrupts, pc)
    /\ pc' = "L63"
    /\ DiscardLocals
    /\ UNCHANGED << argv, port, listening, console, exitStatus, nreq, log >>

\* KeyboardInterrupt raised outside the try (line 59, or line 63 itself):
\* nothing catches it and the interpreter ends with the status of SIGINT
InterruptUncaught ==
    /\ pc \in {"L59", "L63"}
    /\ interrupts' = Append(interrupts, pc)
    /\ pc' = "exit"
    /\ exitStatus' = 130
    /\ UNCHANGED << argv, port, listening, console, nreq, log >>
    /\ LocalsUnchanged

\* line 63 as it would be with a raise after the print
PrintFarewellReraise ==
    /\ pc = "L63"
    /\ console' = console \o <<FarewellLine>>
    /\ pc' = "exit"
    /\ exitStatus' = 130
    /\ UNCHANGED << argv, port, listening, interrupts, nreq, log >>
    /\ LocalsUnchanged

\* line 63, then the end of the script
PrintFarewell ==
    /\ pc = "L63"
    /\ console' = console \o <<FarewellLine>>
    /\ pc' = "exit"
    /\ exitStatus' = 0
    /\ UNCHANGED << argv, port, listening, interrupts, nreq, log >>
    /\ LocalsUnchanged

(***************************************************************************)
(* WebhookHandler.do_POST.                                                 *)
(***************************************************************************)
\* what do_POST printed so far
Block(out) == SubSeq(out, mark + 1, Len(out))

\* do_POST returns after writing response r
Return(out, r) ==
    /\ log' = Append(log, [req |-> req, block |-> Block(out), resp |-> r,
                           outcome |-> "returned", exc |-> ""])
    /\ pc' = "L56"
    /\ DiscardLocals

\* do_POST raises e: socketserver reports it on standard error, closes the
\* connection and goes on serving
Raise(e) ==
    /\ log' = Append(log, [req |-> req, block |-> Block(console), resp |-> <<>>,
                           outcome |-> "raised", exc |-> e])
    /\ pc' = "L56"
    /\ DiscardLocals

\* line 11: content_length = int(self.headers['Content-Length'])
IntContentLength ==
    /\ pc = "L11"
    /\ PyInt(req.hdr).err = ""
    /\ content_length' = PyInt(req.hdr).val
    /\ pc' = "L12"
    /\ UNCHANGED << console, log, req, post_data, data, exc, mark >>
    /\ ServerUnchanged

\* line 11 as it would be if it came after the prints of lines 14-16
IntContentLengthFailsLate ==
    /\ pc = "L11"
    /\ PyInt(req.hdr).err # ""
    /\ console' = console \o ReceiptLines
    /\ log' = Append(log, [req |-> req, block |-> ReceiptLines, resp |-> <<>>,
                           outcome |-> "raised", exc |-> PyInt(req.hdr).err])
    /\ pc' = "L56"
    /\ DiscardLocals
    /\ ServerUnchanged

\* line 11 raises TypeError (no header) or ValueError: nothing catches it
IntContentLengthFails ==
    /\ pc = "L11"
    /\ PyInt(req.hdr).err # ""
    /\ Raise(PyInt(req.hdr).err)
    /\ UNCHANGED console
    /\ ServerUnchanged

\* self.rfile.read(n) on a connection whose client sent wire and then closed
\* its sending side: n bytes, fewer at end of stream, all of it for n = -1
RfileRead(wire, n) ==
    IF n = -1 \/ n >= Len(wire) THEN wire ELSE SubSeq(wire, 1, n)

\* line 12
ReadBody ==
    /\ pc = "L12"
    /\ content_length >= -1
    /\ post_data' = RfileRead(req.wire, content_length)
    /\ pc' = "L14"
    /\ UNCHANGED << console, log, req, content_length, data, exc, mark >>
    /\ ServerUnchanged

\* line 12: BufferedReader.read rejects a length below -1 with ValueError
ReadBodyFails ==
    /\ pc = "L12"
    /\ content_length < -1
    /\ Raise("ValueError")
    /\ UNCHANGED console
    /\ ServerUnchanged

\* lines 14-16
PrintReceipt ==
    /\ pc = "L14"
    /\ console' = console \o ReceiptLines
    /\ pc' = "L19"
    /\ UNCHANGED log
    /\ LocalsUnchanged
    /\ ServerUnchanged

\* json.loads(post_data.decode('utf-8'))
Loads(b) ==
    LET d == Utf8Decode(b)
    IN IF d.err # "" THEN [err |-> d.err, val |-> PyNone] ELSE JsonLoads(d.text)

\* line 19
ParseBody ==
    /\ pc = "L19"
    /\ Loads(post_data).err = ""
    /\ data' = Loads(post_data).val
    /\ pc' = "L20"
    /\ UNCHANGED << console, log, req, content_length, post_data, exc, mark >>
    /\ ServerUnchanged

\* line 19 raises UnicodeDecodeError or JSONDecodeError: line 36 catches it
ParseBodyFails ==
    /\ pc = "L19"
    /\ Loads(post_data).err # ""
    /\ exc' = Loads(post_data).err
    /\ pc' = "L37"
    /\ UNCHANGED << console, log, req, content_length, post_data, data, mark >>
    /\ ServerUnchanged

\* lines 20-27
PrintFields ==
    /\ pc = "L20"
    /\ data.t = "dict"
    /\ console' = console \o FieldLines(data.v)
    /\ pc' = "L29"
    /\ UNCHANGED log
    /\ LocalsUnchanged
    /\ ServerUnchanged

\* line 20 as it would be if line 36 caught json.JSONDecodeError only
PrintFieldsFailsUncaught ==
    /\ pc = "L20"
    /\ data.t # "dict"
    /\ Raise("AttributeError")
    /\ UNCHANGED console
    /\ ServerUnchanged

\* line 20: data.get on a value that is no dict raises AttributeError before
\* anything is printed
PrintFieldsFails ==
    /\ pc = "L20"
    /\ data.t # "dict"
    /\ exc' = "AttributeError"
    /\ pc' = "L37"
    /\ UNCHANGED << console, log, req, content_length, post_data, data, mark >>
    /\ ServerUnchanged

\* line 29 as it would be if the handler kept the last metadata it saw in a
\* class attribute and fell back to it
MetadataRemembered(d) ==
    IF HasKey(d.v, K_metadata) \/ Len(log) = 0 THEN DictGet(d.v, K_metadata, PyNone)
    ELSE LET last == Loads(log[Len(log)].req.wire)
         IN IF last.err = "" /\ last.val.t = "dict"
            THEN DictGet(last.val.v, K_metadata, PyNone)
            ELSE PyNone

\* data.get('metadata') of line 29
Metadata(d) == DictGet(d.v, K_metadata, PyNone)

\* line 29 when the value is falsy
SkipMetadata ==
    /\ pc = "L29"
    /\ ~Truthy(Metadata(data))
    /\ pc' = "L34"
    /\ UNCHANGED << console, log >>
    /\ LocalsUnchanged
    /\ ServerUnchanged

\* lines 29-32 for a non-empty dict
PrintMetadata ==
    /\ pc = "L29"
    /\ Truthy(Metadata(data))
    /\ Metadata(data).t = "dict"
    /\ console' = console \o <<MetadataHeading>> \o MetadataLines(Metadata(data).v)
    /\ pc' = "L34"
    /\ UNCHANGED log
    /\ LocalsUnchanged
    /\ ServerUnchanged

\* lines 29-31 for a truthy value that is no dict: the heading is printed,
\* then .items() raises AttributeError, which line 36 catches
PrintMetadataFails ==
    /\ pc = "L29"
    /\ Truthy(Metadata(data))
    /\ Metadata(data).t # "dict"
    /\ console' = console \o <<MetadataHeading>>
    /\ exc' = "AttributeError"
    /\ pc' = "L37"
    /\ UNCHANGED << log, req, content_length, post_data, data, mark >>
    /\ ServerUnchanged

\* line 34
PrintClosing ==
    /\ pc = "L34"
    /\ console' = console \o <<ClosingLine>>
    /\ pc' = "L41"
    /\ UNCHANGED log
    /\ LocalsUnchanged
    /\ ServerUnchanged

\* line 37
PrintParseError ==
    /\ pc = "L37"
    /\ console' = console \o <<ParseErrorLine(exc)>>
    /\ pc' = "L38"
    /\ UNCHANGED log
    /\ LocalsUnchanged
    /\ ServerUnchanged

\* line 38
PrintRawData ==
    /\ pc = "L38"
    /\ Utf8Decode(post_data).err = ""
    /\ console' = console \o <<RawDataLine(Utf8Decode(post_data).text)>>
    /\ pc' = "L41"
    /\ UNCHANGED log
    /\ LocalsUnchanged
    /\ ServerUnchanged

\* line 38 decodes post_data again; inside the except clause nothing catches
\* its UnicodeDecodeError, which leaves do_POST
PrintRawDataFails ==
    /\ pc = "L38"
    /\ Utf8Decode(post_data).err # ""
    /\ Raise(Utf8Decode(post_data).err)
    /\ UNCHANGED console
    /\ ServerUnchanged

\* lines 41-44, then do_POST returns
SendAck ==
    /\ pc = "L41"
    /\ Return(console, Ack)
    /\ UNCHANGED console
    /\ ServerUnchanged

\* every step but the arrival of a request
Steps ==
    \/ ParseArgs
    \/ ParseArgsFails
    \/ Bind
    \/ BindFails
    \/ PrintBanner
    \/ IntContentLength
    \/ IntContentLengthFails
    \/ ReadBody
    \/ ReadBodyFails
    \/ PrintReceipt
    \/ ParseBody
    \/ ParseBodyFails
    \/ PrintFields
    \/ PrintFieldsFails
    \/ SkipMetadata
    \/ PrintMetadata
    \/ PrintMetadataFails
    \/ PrintClosing
    \/ PrintParseError
    \/ PrintRawData
    \/ PrintRawDataFails
    \/ SendAck
    \/ Interrupt
    \/ InterruptUncaught
    \/ PrintFarewell

Next ==
    \/ Steps
    \/ \E r \in Requests : AcceptRequest(r)

Spec == Init /\ [][Next]_vars

\* longer runs over the requests that take each path through do_POST once
NextRepeat ==
    \/ Steps
    \/ \E r \in RepeatRequests : AcceptRepeat(r)

SpecRepeat == Init /\ [][NextRepeat]_vars

(***************************************************************************)
(* Properties.  They speak of the records of log, one per finished         *)
(* do_POST call, and of the console.                                       *)
(***************************************************************************)
Entries == {log[i] : i \in DOMAIN log}

\* a Content-Length of one or more decimal digits
ValidLength(h) ==
    /\ h.present
    /\ Len(h.value) > 0
    /\ \A i \in 1..Len(h.value) : IsDigit(h.value[i])

\* line 12 was passed: post_data holds the bytes read
WasRead(e) == PyInt(e.req.hdr).err = "" /\ PyInt(e.req.hdr).val >= -1

BodyOf(e) == RfileRead(e.req.wire, PyInt(e.req.hdr).val)

\* r, the result of Loads on a body, is a value that is a dict, or is not
IsDict(r) == r.err = "" /\ r.val.t = "dict"

IsOther(r) == r.err = "" /\ r.val.t # "dict"

Printed(label, text) == [label |-> label, text |-> text, exc |-> ""]

Labels(block) == [i \in 1..Len(block) |-> block[i].label]

HasLabel(block, l) == \E i \in 1..Len(block) : block[i].label = l

FieldLabels ==
    << "alert_id", "title", "message", "severity", "alert_type", "device_id",
       "created_at", "timestamp" >>

FieldKeys ==
    << K_alert_id, K_title, K_message, K_severity, K_alert_type, K_device_id,
       K_created_at, K_timestamp >>

HasFieldLine(block) == \E i \in 1..Len(block) : \E k \in 1..8 : block[i].label = FieldLabels[k]

Acknowledged(e) ==
    /\ e.outcome = "returned"
    /\ Len(e.resp) = 4
    /\ e.resp[1].part = "status" /\ e.resp[1].code = 200
    /\ e.resp[2].part = "header" /\ e.resp[2].name = "Content-type"
    /\ e.resp[2].value = "application/json"
    /\ e.resp[3].part = "end_headers"
    /\ e.resp[4].part = "body" /\ e.resp[4].value = "{\"status\": \"received\"}"

\* the lines after the receipt are the parse-error line for exception x and
\* the raw-data line showing text
ErrorBlock(e, x, text) ==
    /\ Len(e.block) = 5
    /\ Labels(e.block) = << "rule_open", "receipt", "rule", "parse_error", "raw_data" >>
    /\ e.block[4].exc = x
    /\ e.block[5].text = text

\* C1: every POST whose Content-Length is a valid number is answered with
\* status 200, Content-type: application/json and the body
\* {"status": "received"}, whatever its body.
C1_AcknowledgmentInvariance ==
    \A e \in Entries : ValidLength(e.req.hdr) => Acknowledged(e)

\* C2: a body that is not valid UTF-8 is handled like malformed JSON: the
\* parse-error line and the raw-data line are printed, the acknowledgment is
\* sent and nothing leaves the handler.
C2_InvalidUtf8Handled ==
    \A e \in Entries :
        WasRead(e) /\ Utf8Decode(BodyOf(e)).err # "" =>
            /\ Acknowledged(e)
            /\ HasLabel(e.block, "parse_error")
            /\ HasLabel(e.block, "raw_data")

\* C3: a body that is valid UTF-8 but not valid JSON gets the parse-error line
\* with the failure, then the raw-data line with the body text unchanged, no
\* field line, and the acknowledgment; the body "not json" is shown as
\* not json.
C3_MalformedBodyTolerance ==
    \A e \in Entries :
        /\ WasRead(e) =>
              LET u == Utf8Decode(BodyOf(e))
              IN u.err = "" /\ JsonLoads(u.text).err # "" =>
                    /\ ErrorBlock(e, "JSONDecodeError", u.text)
                    /\ ~HasFieldLine(e.block)
                    /\ Acknowledged(e)
        /\ e.req = Request(Given(<<56>>), BodyNotJson) =>
              /\ Len(e.block) = 5
              /\ e.block[5] = Printed("raw_data", <<110, 111, 116, 32, 106, 115, 111, 110>>)

C3_Witness ==
    \E e \in Entries : e.req = Request(Given(<<56>>), BodyNotJson) /\ e.outcome = "returned"

\* C4: every body that parses as a JSON object takes the success path: the
\* eight field lines and the closing separator are printed and the parse-error
\* line never is, whatever the types of its fields (metadata included).
C4_AnyObjectAccepted ==
    \A e \in Entries :
        WasRead(e) /\ IsDict(Loads(BodyOf(e))) =>
            /\ Len(e.block) >= 12
            /\ SubSeq(Labels(e.block), 4, 11) = FieldLabels
            /\ e.block[Len(e.block)].label = "rule_close"
            /\ ~HasLabel(e.block, "parse_error")

\* C5: with no metadata key or an empty metadata mapping neither the heading
\* nor a metadata line is printed; with a non-empty mapping the heading is
\* printed once, right after the field lines, followed by exactly one line
\* per pair, in the mapping's order, each showing the key and the value.
C5_MetadataSuppression ==
    \A e \in Entries :
        WasRead(e) =>
            LET r == Loads(BodyOf(e))
                d == r.val.v
                absent == ~HasKey(d, K_metadata)
                m == DictGet(d, K_metadata, PyNone)
                items == {i \in 1..Len(e.block) : e.block[i].label = "metadata_item"}
                heads == {i \in 1..Len(e.block) : e.block[i].label = "metadata_heading"}
            IN /\ IsDict(r) /\ (absent \/ (m.t = "dict" /\ Len(m.v) = 0)) =>
                     items = {} /\ heads = {}
               /\ IsDict(r) /\ ~absent /\ m.t = "dict" /\ Len(m.v) > 0 =>
                     /\ heads = {12}
                     /\ items = 13..(12 + Len(m.v))
                     /\ \A n \in 1..Len(m.v) :
                            e.block[12 + n].text =
                                <<32, 32>> \o m.v[n].k \o <<58, 32>> \o Str(m.v[n].v)
               /\ e.req.wire = BodyMeta /\ ValidLength(e.req.hdr) =>
                     /\ Len(e.block) = 15
                     /\ e.block[13].text = <<32, 32, 122, 111, 110, 101, 58, 32, 117, 115, 45, 101, 97, 115, 116>>
                     /\ e.block[14].text = <<32, 32, 110, 58, 32, 49>>

C5_Witness ==
    /\ \E e \in Entries : e.req = Request(Given(Digits(Len(BodyMeta))), BodyMeta)
    /\ \E e \in Entries : e.req = Request(Given(Digits(Len(BodyMetaEmpty))), BodyMetaEmpty)

\* C6: when the body parses as an object the eight labelled lines are printed
\* in the order alert id, title, message, severity, alert type, device id,
\* creation time, timestamp, each whether or not its key is present; an
\* absent device_id shows N/A, every other absent field shows None.
C6_FieldBlock ==
    \A e \in Entries :
        WasRead(e) =>
            LET r == Loads(BodyOf(e))
                d == r.val.v
            IN IsDict(r) =>
               /\ Len(e.block) >= 11
               /\ SubSeq(Labels(e.block), 1, 11) = << "rule_open", "receipt", "rule" >> \o FieldLabels
               /\ Cardinality({i \in 1..Len(e.block) : \E k \in 1..8 : e.block[i].label = FieldLabels[k]}) = 8
               /\ \A k \in 1..8 :
                      e.block[3 + k].text =
                          IF HasKey(d, FieldKeys[k]) THEN Str(DictGet(d, FieldKeys[k], PyNone))
                          ELSE IF k = 6 THEN <<78, 47, 65>>
                          ELSE <<78, 111, 110, 101>>

C6_Witness ==
    \E e \in Entries :
        /\ e.req = Request(Given(Digits(Len(BodyTitle))), BodyTitle)
        /\ e.block[5].text = <<100, 105, 115, 107>>
        /\ e.block[9].text = <<78, 47, 65>>

\* C7: what a POST prints and what it is answered depend only on its own
\* header and body: two requests of a run with the same header and body get
\* the same output block, the same response and the same outcome, whatever
\* was handled before them.
C7_Statelessness ==
    \A i \in DOMAIN log : \A j \in DOMAIN log :
        log[i].req = log[j].req =>
            /\ log[i].block = log[j].block
            /\ log[i].resp = log[j].resp
            /\ log[i].outcome = log[j].outcome
            /\ log[i].exc = log[j].exc

\* the same request twice, with a failed request in between
C7_Witness ==
    /\ Len(log) = 3
    /\ log[1].req = log[3].req
    /\ log[1].outcome = "returned"
    /\ log[2].outcome = "raised"
    /\ log[1].req # log[2].req

\* the port the command line asks for
AskedPort == IF argv.present THEN (IF argv.value = <<57, 48, 48, 49>> THEN 9001 ELSE -1) ELSE 8888

\* the socket is bound to the asked port, the banner with the URL of that
\* port is printed before any request is served, and once the socket is bound
\* the program ends only after a keyboard interrupt
C8_Startup ==
    /\ listening # 0 => listening = AskedPort
    /\ nreq > 0 =>
          /\ Len(console) >= 3
          /\ console[1] = Printed("banner_port", Digits(AskedPort))
          /\ console[2] = Printed("banner_url", IF argv.present
                                                 THEN <<104, 116, 116, 112, 58, 47, 47, 108, 111, 99, 97, 108, 104, 111, 115, 116, 58, 57, 48, 48, 49, 47, 119, 101, 98, 104, 111, 111, 107>>
                                                 ELSE <<104, 116, 116, 112, 58, 47, 47, 108, 111, 99, 97, 108, 104, 111, 115, 116, 58, 56, 56, 56, 56, 47, 119, 101, 98, 104, 111, 111, 107>>)
          /\ console[3].label = "banner_waiting"
    /\ pc = "exit" /\ listening # 0 => Len(interrupts) > 0

SaidFarewell ==
    /\ Len(console) > 0
    /\ console[Len(console)].label = "farewell"
    /\ exitStatus = 0

\* C8 as stated: the asked port (8888 by default) is bound, the banner comes
\* before any request, the program stops only on a keyboard interrupt, and
\* whenever the interrupt arrives the farewell is printed and the exit status
\* is 0.
C8_ListenerLifecycle ==
    /\ C8_Startup
    /\ pc = "exit" /\ Len(interrupts) > 0 => SaidFarewell

\* C8 amended: the same, for an interrupt that arrives inside the try of
\* lines 60-61 (binding, banner, waiting, handling a request) and is not
\* followed by a second one before the farewell is printed; an interrupt that
\* arrives while line 59 reads the port argument ends the program without
\* farewell and with a non-zero status.
C8_ListenerLifecycleInTry ==
    /\ C8_Startup
    /\ pc = "exit" /\ Len(interrupts) = 1 /\ interrupts[1] \in TryPcs => SaidFarewell
    /\ pc = "exit" /\ Len(interrupts) > 0 /\ interrupts[1] = "L59" =>
          /\ ~HasLabel(console, "farewell")
          /\ exitStatus # 0

C8_Witness ==
    /\ pc = "exit"
    /\ Len(interrupts) = 1
    /\ interrupts[1] \in HandlerPcs
    /\ SaidFarewell
    /\ listening = 8888

\* C9: a POST whose Content-Length is missing or not a number makes do_POST
\* fail before the body is read: nothing is printed for the request and no
\* status, header or body is sent.
C9_BadContentLength ==
    \A e \in Entries :
        PyInt(e.req.hdr).err # "" =>
            /\ e.outcome = "raised"
            /\ e.exc \in {"TypeError", "ValueError"}
            /\ e.block = <<>>
            /\ e.resp = <<>>

C9_Witness ==
    /\ \E e \in Entries : e.req.hdr = Missing /\ e.exc = "TypeError"
    /\ \E e \in Entries : e.req.hdr = Given(<<97, 98, 99>>) /\ e.exc = "ValueError"

\* C10: a body that is valid JSON but no object (array, string, number,
\* boolean, null) is treated as a parse failure: no field line is printed, the
\* parse-error line and the raw-data line are, and the acknowledgment is sent.
C10_NonObjectJson ==
    \A e \in Entries :
        WasRead(e) =>
            LET u == Utf8Decode(BodyOf(e))
            IN u.err = "" /\ IsOther(JsonLoads(u.text)) =>
                  /\ ErrorBlock(e, "AttributeError", u.text)
                  /\ ~HasFieldLine(e.block)
                  /\ Acknowledged(e)

C10_Witness ==
    /\ \E e \in Entries : e.req = Request(Given(<<51>>), BodyArray) /\ e.outcome = "returned"
    /\ \E e \in Entries : e.req = Request(Given(<<52>>), BodyNull) /\ e.outcome = "returned"

=============================================================================
